---- MODULE Spec2Model ----
(***************************************************************************)
(* A model of date_mcp/server.py: the location table built at import time  *)
(* (built-in entries overlaid with DATE_MCP_LOCATIONS), the resolver       *)
(* get_timezone_from_location, and the MCP handlers list_tools, call_tool, *)
(* list_prompts and get_prompt.                                            *)
(*                                                                         *)
(* A Python str is a sequence of characters.  A character is a            *)
(* one-character TLA+ string; the characters outside ASCII are named:      *)
(* "a_tilde" (U+00E3), "A_TILDE" (U+00C3), "dotless_i" (U+0131) and "LF"   *)
(* (U+000A).  The fixed text of a message is one element per literal       *)
(* fragment.                                                               *)
(***************************************************************************)
EXTENDS Integers, Sequences, FiniteSets, TLC

VARIABLES pc, env, pending, LOCATION_MAP, request, response

vars == <<pc, env, pending, LOCATION_MAP, request, response>>

(***************************************************************************)
(* Bounds of the model.                                                    *)
(***************************************************************************)
\* The largest number of comma-separated entries in DATE_MCP_LOCATIONS.
MaxEntries == 2

\* The host clock takes the values 0..MaxClock.
MaxClock == 1

(***************************************************************************)
(* str: case conversion, ordering, strip, split, join.                     *)
(***************************************************************************)
UpperLetters ==
  <<"A", "B", "C", "D", "E", "F", "G", "H", "I", "J", "K", "L", "M",
    "N", "O", "P", "Q", "R", "S", "T", "U", "V", "W", "X", "Y", "Z">>

LowerLetters ==
  <<"a", "b", "c", "d", "e", "f", "g", "h", "i", "j", "k", "l", "m",
    "n", "o", "p", "q", "r", "s", "t", "u", "v", "w", "x", "y", "z">>

LetterRange == DOMAIN UpperLetters

LetterIndex(letters, c) == CHOOSE i \in LetterRange : letters[i] = c

\* str.lower() of one character: dotless i is already lower case.
LowerTable ==
  [c \in {UpperLetters[i] : i \in LetterRange} \cup {"A_TILDE"} |->
     IF c = "A_TILDE" THEN "a_tilde"
     ELSE LowerLetters[LetterIndex(UpperLetters, c)]]

\* str.upper() of one character: the upper case of dotless i is "I".
UpperTable ==
  [c \in {LowerLetters[i] : i \in LetterRange} \cup {"a_tilde", "dotless_i"} |->
     IF c = "a_tilde" THEN "A_TILDE"
     ELSE IF c = "dotless_i" THEN "I"
     ELSE UpperLetters[LetterIndex(LowerLetters, c)]]

\* Unicode code points, the order sorted() compares str by.
CodePointTable ==
  [c \in {UpperLetters[i] : i \in LetterRange}
         \cup {LowerLetters[i] : i \in LetterRange}
         \cup {"LF", " ", ",", "/", "=", "_", "A_TILDE", "a_tilde", "dotless_i"} |->
     IF c \in {UpperLetters[i] : i \in LetterRange}
       THEN 64 + LetterIndex(UpperLetters, c)
     ELSE IF c \in {LowerLetters[i] : i \in LetterRange}
       THEN 96 + LetterIndex(LowerLetters, c)
     ELSE CASE c = "LF" -> 10
            [] c = " " -> 32
            [] c = "," -> 44
            [] c = "/" -> 47
            [] c = "=" -> 61
            [] c = "_" -> 95
            [] c = "A_TILDE" -> 195
            [] c = "a_tilde" -> 227
            [] c = "dotless_i" -> 305]

LowerChar(c) == IF c \in DOMAIN LowerTable THEN LowerTable[c] ELSE c

UpperChar(c) == IF c \in DOMAIN UpperTable THEN UpperTable[c] ELSE c

RECURSIVE str_lower(_)
str_lower(s) ==
  IF s = <<>> THEN <<>> ELSE <<LowerChar(Head(s))>> \o str_lower(Tail(s))

RECURSIVE str_upper(_)
str_upper(s) ==
  IF s = <<>> THEN <<>> ELSE <<UpperChar(Head(s))>> \o str_upper(Tail(s))

\* s < t in the order of str: code point by code point, a proper prefix first.
RECURSIVE str_lt(_, _)
str_lt(s, t) ==
  IF t = <<>> THEN FALSE
  ELSE IF s = <<>> THEN TRUE
  ELSE IF Head(s) = Head(t) THEN str_lt(Tail(s), Tail(t))
  ELSE CodePointTable[Head(s)] < CodePointTable[Head(t)]

\* The characters str.strip() removes (those of them that the model uses).
Whitespace == {" ", "LF"}

str_strip(s) ==
  LET solid == {i \in 1..Len(s) : s[i] \notin Whitespace}
  IN  IF solid = {} THEN <<>>
      ELSE SubSeq(s, CHOOSE i \in solid : \A j \in solid : i <= j,
                     CHOOSE i \in solid : \A j \in solid : j <= i)

\* str.find(c): the first position of c in s, 0 when there is none.
str_find(s, c) ==
  LET hits == {i \in 1..Len(s) : s[i] = c}
  IN  IF hits = {} THEN 0 ELSE CHOOSE i \in hits : \A j \in hits : i <= j

\* c in s
str_in(c, s) == str_find(s, c) # 0

\* s.split(sep)
RECURSIVE str_split(_, _)
str_split(s, sep) ==
  LET i == str_find(s, sep)
  IN  IF i = 0 THEN <<s>>
      ELSE <<SubSeq(s, 1, i - 1)>> \o str_split(SubSeq(s, i + 1, Len(s)), sep)

\* s.split(sep, 1) of a string that holds sep: cut at the first sep only.
str_split1(s, sep) ==
  LET i == str_find(s, sep)
  IN  <<SubSeq(s, 1, i - 1), SubSeq(s, i + 1, Len(s))>>

\* sep.join(parts)
RECURSIVE str_join(_, _)
str_join(sep, parts) ==
  IF parts = <<>> THEN <<>>
  ELSE IF Len(parts) = 1 THEN parts[1]
  ELSE parts[1] \o sep \o str_join(sep, Tail(parts))

\* A variant of sorted that leaves the names in the order given.
unsorted(names) == names

\* sorted(names): insertion sort, ascending by str_lt.
RECURSIVE Insert(_, _)
Insert(x, sortedSeq) ==
  IF sortedSeq = <<>> THEN <<x>>
  ELSE IF str_lt(Head(sortedSeq), x) THEN <<Head(sortedSeq)>> \o Insert(x, Tail(sortedSeq))
  ELSE <<x>> \o sortedSeq

RECURSIVE sorted(_)
sorted(names) ==
  IF names = <<>> THEN <<>> ELSE Insert(Head(names), sorted(Tail(names)))

(***************************************************************************)
(* dict: a sequence of entries in insertion order, one per key.            *)
(***************************************************************************)
DictHas(d, k) == \E i \in 1..Len(d) : d[i].city = k

DictGet(d, k) == d[CHOOSE i \in 1..Len(d) : d[i].city = k].tz

\* d[k] = v: a present key keeps its place, a new key goes last.
DictSet(d, k, v) ==
  IF DictHas(d, k)
    THEN [d EXCEPT ![CHOOSE i \in 1..Len(d) : d[i].city = k].tz = v]
    ELSE Append(d, [city |-> k, tz |-> v])

\* list(d.keys())
RECURSIVE DictKeys(_)
DictKeys(d) == IF d = <<>> THEN <<>> ELSE <<Head(d).city>> \o DictKeys(Tail(d))

(***************************************************************************)
(* LOCATION_MAP as the module defines it.                                  *)
(***************************************************************************)
BuiltinLocations ==
  << [city |-> <<"N", "e", "w", " ", "Y", "o", "r", "k">>,
      tz |-> <<"A", "m", "e", "r", "i", "c", "a", "/", "N", "e", "w", "_", "Y", "o", "r", "k">>],
     [city |-> <<"C", "h", "i", "c", "a", "g", "o">>,
      tz |-> <<"A", "m", "e", "r", "i", "c", "a", "/", "C", "h", "i", "c", "a", "g", "o">>],
     [city |-> <<"D", "e", "n", "v", "e", "r">>,
      tz |-> <<"A", "m", "e", "r", "i", "c", "a", "/", "D", "e", "n", "v", "e", "r">>],
     [city |-> <<"L", "o", "s", " ", "A", "n", "g", "e", "l", "e", "s">>,
      tz |-> <<"A", "m", "e", "r", "i", "c", "a", "/", "L", "o", "s", "_", "A", "n", "g", "e", "l", "e", "s">>],
     [city |-> <<"L", "o", "n", "d", "o", "n">>,
      tz |-> <<"E", "u", "r", "o", "p", "e", "/", "L", "o", "n", "d", "o", "n">>],
     [city |-> <<"P", "a", "r", "i", "s">>,
      tz |-> <<"E", "u", "r", "o", "p", "e", "/", "P", "a", "r", "i", "s">>],
     [city |-> <<"B", "e", "r", "l", "i", "n">>,
      tz |-> <<"E", "u", "r", "o", "p", "e", "/", "B", "e", "r", "l", "i", "n">>],
     [city |-> <<"T", "o", "k", "y", "o">>,
      tz |-> <<"A", "s", "i", "a", "/", "T", "o", "k", "y", "o">>],
     [city |-> <<"S", "y", "d", "n", "e", "y">>,
      tz |-> <<"A", "u", "s", "t", "r", "a", "l", "i", "a", "/", "S", "y", "d", "n", "e", "y">>],
     [city |-> <<"S", "h", "a", "n", "g", "h", "a", "i">>,
      tz |-> <<"A", "s", "i", "a", "/", "S", "h", "a", "n", "g", "h", "a", "i">>],
     [city |-> <<"S", "i", "n", "g", "a", "p", "o", "r", "e">>,
      tz |-> <<"A", "s", "i", "a", "/", "S", "i", "n", "g", "a", "p", "o", "r", "e">>],
     [city |-> <<"D", "u", "b", "a", "i">>,
      tz |-> <<"A", "s", "i", "a", "/", "D", "u", "b", "a", "i">>],
     [city |-> <<"H", "o", "n", "g", " ", "K", "o", "n", "g">>,
      tz |-> <<"A", "s", "i", "a", "/", "H", "o", "n", "g", "_", "K", "o", "n", "g">>],
     [city |-> <<"T", "o", "r", "o", "n", "t", "o">>,
      tz |-> <<"A", "m", "e", "r", "i", "c", "a", "/", "T", "o", "r", "o", "n", "t", "o">>],
     [city |-> <<"S", "a_tilde", "o", " ", "P", "a", "u", "l", "o">>,
      tz |-> <<"A", "m", "e", "r", "i", "c", "a", "/", "S", "a", "o", "_", "P", "a", "u", "l", "o">>],
     [city |-> <<"M", "e", "x", "i", "c", "o", " ", "C", "i", "t", "y">>,
      tz |-> <<"A", "m", "e", "r", "i", "c", "a", "/", "M", "e", "x", "i", "c", "o", "_", "C", "i", "t", "y">>],
     [city |-> <<"M", "u", "m", "b", "a", "i">>,
      tz |-> <<"A", "s", "i", "a", "/", "K", "o", "l", "k", "a", "t", "a">>],
     [city |-> <<"B", "a", "n", "g", "k", "o", "k">>,
      tz |-> <<"A", "s", "i", "a", "/", "B", "a", "n", "g", "k", "o", "k">>],
     [city |-> <<"I", "s", "t", "a", "n", "b", "u", "l">>,
      tz |-> <<"E", "u", "r", "o", "p", "e", "/", "I", "s", "t", "a", "n", "b", "u", "l">>],
     [city |-> <<"M", "o", "s", "c", "o", "w">>,
      tz |-> <<"E", "u", "r", "o", "p", "e", "/", "M", "o", "s", "c", "o", "w">>],
     [city |-> <<"C", "a", "i", "r", "o">>,
      tz |-> <<"A", "f", "r", "i", "c", "a", "/", "C", "a", "i", "r", "o">>],
     [city |-> <<"L", "a", "g", "o", "s">>,
      tz |-> <<"A", "f", "r", "i", "c", "a", "/", "L", "a", "g", "o", "s">>],
     [city |-> <<"N", "a", "i", "r", "o", "b", "i">>,
      tz |-> <<"A", "f", "r", "i", "c", "a", "/", "N", "a", "i", "r", "o", "b", "i">>] >>


KnownCities == {BuiltinLocations[i].city : i \in 1..Len(BuiltinLocations)}

(***************************************************************************)
(* The environment: values of DATE_MCP_LOCATIONS.                          *)
(***************************************************************************)
Paris == <<"P", "a", "r", "i", "s">>
Vienna == <<"V", "i", "e", "n", "n", "a">>
Aydin == <<"A", "y", "d", "dotless_i", "n">>
SaoPaulo == <<"S", "a_tilde", "o", " ", "P", "a", "u", "l", "o">>
Nowhere == <<"N", "o", "w", "h", "e", "r", "e">>
EuropeVienna == <<"E", "u", "r", "o", "p", "e", "/", "V", "i", "e", "n", "n", "a">>
EntryVienna == <<"V", "i", "e", "n", "n", "a", "=", "E", "u", "r", "o", "p", "e", "/", "V", "i", "e", "n", "n", "a">>
EntryViennaNoZone == <<"V", "i", "e", "n", "n", "a", "=">>
EntryMalformed == <<"m", "a", "l", "f", "o", "r", "m", "e", "d">>
EntryParisPadded == <<" ", "P", "a", "r", "i", "s", " ", "=", " ", "A", "s", "i", "a", "/", "T", "o", "k", "y", "o", " ">>
EntryParisLower == <<"p", "a", "r", "i", "s", "=", "P", "/", "Q">>
EntryNoName == <<"=", "X", "/", "Y">>
EntryTwoEquals == <<"A", "=", "X", "=", "Y">>
EntryAydin == <<"A", "y", "d", "dotless_i", "n", "=", "E", "u", "r", "o", "p", "e", "/", "I", "s", "t", "a", "n", "b", "u", "l">>
EntryNewline == <<"A", "LF", "B", "=", "X", "/", "Y">>
EntryViennaUpper == <<"V", "I", "E", "N", "N", "A", "=", "P", "/", "Q">>

\* The entries a value of DATE_MCP_LOCATIONS is made of.
OverrideEntries ==
  { EntryVienna, EntryViennaNoZone, EntryMalformed, EntryParisPadded,
    EntryParisLower, EntryNoName, EntryTwoEquals, EntryAydin, EntryNewline,
    EntryViennaUpper, <<>> }

EntryLists == UNION {[1..n -> OverrideEntries] : n \in 0..MaxEntries}

\* Every value of the variable: up to MaxEntries entries joined by commas
\* (the empty string stands for the variable being unset as well).
EnvStrings == {str_join(<<",">>, es) : es \in EntryLists}

\* The instants the host clock can show.
Clock == 0..MaxClock

(***************************************************************************)
(* zoneinfo.ZoneInfo: the IANA database holds the built-in zones and       *)
(* Europe/Vienna; every other key the model uses is unknown to it.         *)
(***************************************************************************)
KnownZones ==
  {BuiltinLocations[i].tz : i \in 1..Len(BuiltinLocations)} \cup {EuropeVienna}

NoError == [exception |-> "", kind |-> "", message |-> <<>>]

Error(exception, kind, message) ==
  [exception |-> exception, kind |-> kind, message |-> message]

ZoneInfo(key) ==
  IF key \in KnownZones THEN [raised |-> FALSE, error |-> NoError]
  ELSE IF key = <<>>
    THEN [raised |-> TRUE,
          error |-> Error("ValueError", "ZoneInfoFailure",
                          <<"ZoneInfo keys must be normalized relative paths, got: ">> \o key)]
    ELSE [raised |-> TRUE,
          error |-> Error("ZoneInfoNotFoundError", "ZoneInfoFailure",
                          <<"No time zone found with key ">> \o key)]

(***************************************************************************)
(* datetime: the text of an instant.                                       *)
(***************************************************************************)
timezone_utc == <<"+00:00">>

local_timezone == <<"utcoffset(localtime)">>

\* datetime.now().strftime(fmt)
strftime(now, fmt) == <<fmt, ToString(now)>>

\* datetime.now(tz).isoformat(): the instant followed by the zone's offset.
isoformat(now, offset) == <<"isoformat", ToString(now)>> \o offset

\* The offset of the datetime ZoneInfo(tz_name) gives.
utcoffset(tz_name) == <<"utcoffset(">> \o tz_name \o <<")">>

\* text.replace(old, new), old and new one fragment each.
RECURSIVE str_replace(_, _, _)
str_replace(s, old, new) ==
  IF s = <<>> THEN <<>>
  ELSE <<IF Head(s) = old THEN new ELSE Head(s)>> \o str_replace(Tail(s), old, new)

(***************************************************************************)
(* Import of the module: lines 17-58.                                      *)
(***************************************************************************)
\* A variant of OverrideEntry that overwrites the first entry whose name is
\* the pair's name but for letter case, when there is one.
OverrideEntryIgnoringCase(table, raw) ==
  LET entry == str_strip(raw)
  IN  IF str_in("=", entry)
        THEN LET parts == str_split1(entry, "=")
                 city == str_strip(parts[1])
                 same == {i \in 1..Len(table) : str_lower(table[i].city) = str_lower(city)}
             IN  IF same = {} THEN DictSet(table, city, str_strip(parts[2]))
                 ELSE [table EXCEPT ![CHOOSE i \in same : \A j \in same : i <= j].tz =
                                       str_strip(parts[2])]
        ELSE table

\* One pass of the loop over _env_locations.split(",").
OverrideEntry(table, raw) ==
  LET entry == str_strip(raw)
  IN  IF str_in("=", entry)
        THEN LET parts == str_split1(entry, "=")
             IN  DictSet(table, str_strip(parts[1]), str_strip(parts[2]))
        ELSE table

NoRequest == [method |-> "none", name |-> "", arguments |-> [present |-> FALSE, location |-> <<>>]]

NoResponse == [kind |-> "none", result |-> <<>>, error |-> NoError]

Init ==
  /\ pc = "import"
  /\ env \in EnvStrings
  /\ pending = <<>>
  /\ LOCATION_MAP = <<>>
  /\ request = NoRequest
  /\ response = NoResponse

\* LOCATION_MAP = {...}
DefineLocationMap ==
  /\ pc = "import"
  /\ LOCATION_MAP' = BuiltinLocations
  /\ pc' = "getenv"
  /\ UNCHANGED <<env, pending, request, response>>

\* _env_locations = os.getenv(...); if _env_locations: for entry in split(",")
ReadEnvLocations ==
  /\ pc = "getenv"
  /\ pending' = IF env # <<>> THEN str_split(env, ",") ELSE <<>>
  /\ pc' = "overrides"
  /\ UNCHANGED <<env, LOCATION_MAP, request, response>>

ApplyOverrideEntry ==
  /\ pc = "overrides"
  /\ pending # <<>>
  /\ LOCATION_MAP' = OverrideEntry(LOCATION_MAP, Head(pending))
  /\ pending' = Tail(pending)
  /\ UNCHANGED <<pc, env, request, response>>

\* A variant of ImportDone that lets the server start inside the loop.
ImportUnfinished == pc = "overrides"

\* main() is called once the module body has run: the loop is over.
ImportDone == pc = "overrides" /\ pending = <<>>

main ==
  /\ ImportDone
  /\ pc' = "serving"
  /\ UNCHANGED <<env, pending, LOCATION_MAP, request, response>>

(***************************************************************************)
(* get_timezone_from_location: lines 61-97.                                *)
(***************************************************************************)
SampleSize == 5

Min(a, b) == IF a <= b THEN a ELSE b

\* A variant of sample_cities that takes the last names, not the first.
sample_cities_last ==
  SubSeq(DictKeys(LOCATION_MAP), Len(LOCATION_MAP) - Min(SampleSize, Len(LOCATION_MAP)) + 1,
         Len(LOCATION_MAP))

\* list(LOCATION_MAP.keys())[:5]
sample_cities == SubSeq(DictKeys(LOCATION_MAP), 1, Min(SampleSize, Len(LOCATION_MAP)))

\* ", ".join(sample_cities)
sample_list == str_join(<<",", " ">>, sample_cities)

error_msg(location) ==
  <<"Unknown location: '">> \o location
    \o <<"'. Available locations include: ">> \o sample_list
    \o <<", and more. To add '">> \o location
    \o <<"', configure the DATE_MCP_LOCATIONS environment variable in your mcp.json: DATE_MCP_LOCATIONS: ">>
    \o location
    \o <<"=<IANA_TIMEZONE> For example, to add Vienna: DATE_MCP_LOCATIONS=Vienna=Europe/Vienna For multiple locations: DATE_MCP_LOCATIONS=Vienna=Europe/Vienna,Sydney=Australia/Sydney">>

Found(tz) == [raised |-> FALSE, value |-> tz, error |-> NoError]

NotFound(e) == [raised |-> TRUE, value |-> <<>>, error |-> e]

\* The places of the entries whose name is location but for letter case.
SameButCase(location) ==
  LET lowered == str_lower(location)
  IN  {i \in 1..Len(LOCATION_MAP) : str_lower(LOCATION_MAP[i].city) = lowered}

\* A variant of First that gives the last place.
Last(places) == CHOOSE i \in places : \A j \in places : j <= i

\* The first place of a non-empty set of places.
First(places) == CHOOSE i \in places : \A j \in places : i <= j

\* A variant of get_timezone_from_location that compares without case from
\* the start and never looks the exact key up.
get_timezone_ignoring_case(location) ==
  LET same == SameButCase(location)
  IN  IF same # {} THEN Found(LOCATION_MAP[First(same)].tz)
      ELSE NotFound(Error("ValueError", "LocationNotFound", error_msg(location)))

get_timezone_from_location(location) ==
  IF DictHas(LOCATION_MAP, location) THEN Found(DictGet(LOCATION_MAP, location))
  ELSE LET same == SameButCase(location)
       IN  IF same # {} THEN Found(LOCATION_MAP[First(same)].tz)
           ELSE NotFound(Error("ValueError", "LocationNotFound", error_msg(location)))

(***************************************************************************)
(* The handlers: lines 104-237.                                            *)
(***************************************************************************)
Tool(name, properties, required) ==
  [name |-> name, properties |-> properties, required |-> required]

list_tools ==
  << Tool("get_day_name", <<>>, <<>>),
     Tool("get_iso_date", <<>>, <<>>),
     Tool("current_time", <<>>, <<>>),
     Tool("current_time_utc", <<>>, <<>>),
     Tool("current_time_location", <<"location">>, <<"location">>),
     Tool("list_available_locations", <<>>, <<>>) >>

TextContent(text) == [type |-> "text", text |-> text]

Return(value) == [kind |-> "result", result |-> value, error |-> NoError]

Raise(e) == [kind |-> "error", result |-> <<>>, error |-> e]

\* A dict of arguments: the argument named location, when it is given.
NoArguments == [present |-> FALSE, location |-> <<>>]

Arguments(location) == [present |-> TRUE, location |-> location]

\* not arguments.get("location")
Falsy(arguments) == ~arguments.present \/ arguments.location = <<>>

current_time_location(arguments, now) ==
  IF Falsy(arguments)
    THEN Raise(Error("ValueError", "InvalidArgument",
                     <<"location parameter is required">>))
  ELSE LET tz_name == get_timezone_from_location(arguments.location)
       IN  IF tz_name.raised THEN Raise(tz_name.error)
           ELSE IF ZoneInfo(tz_name.value).raised
             THEN Raise(ZoneInfo(tz_name.value).error)
             ELSE Return(<<TextContent(isoformat(now, utcoffset(tz_name.value)))>>)

\* A variant of call_tool without the branch of list_available_locations.
call_tool_without_listing(name, arguments, now) ==
  IF name = "get_day_name"
    THEN Return(<<TextContent(strftime(now, "%A"))>>)
  ELSE IF name = "get_iso_date"
    THEN Return(<<TextContent(strftime(now, "%Y-%m-%d"))>>)
  ELSE IF name = "current_time"
    THEN Return(<<TextContent(isoformat(now, local_timezone))>>)
  ELSE IF name = "current_time_utc"
    THEN Return(<<TextContent(str_replace(isoformat(now, timezone_utc), "+00:00", "Z"))>>)
  ELSE IF name = "current_time_location"
    THEN current_time_location(arguments, now)
  ELSE Raise(Error("ValueError", "UnknownTool", <<"Unknown tool: ", name>>))

call_tool(name, arguments, now) ==
  IF name = "get_day_name"
    THEN Return(<<TextContent(strftime(now, "%A"))>>)
  ELSE IF name = "get_iso_date"
    THEN Return(<<TextContent(strftime(now, "%Y-%m-%d"))>>)
  ELSE IF name = "current_time"
    THEN Return(<<TextContent(isoformat(now, local_timezone))>>)
  ELSE IF name = "current_time_utc"
    THEN Return(<<TextContent(str_replace(isoformat(now, timezone_utc), "+00:00", "Z"))>>)
  ELSE IF name = "current_time_location"
    THEN current_time_location(arguments, now)
  ELSE IF name = "list_available_locations"
    THEN Return(<<TextContent(str_join(<<"LF">>, sorted(DictKeys(LOCATION_MAP))))>>)
  ELSE Raise(Error("ValueError", "UnknownTool", <<"Unknown tool: ", name>>))

Prompt(name, arguments) == [name |-> name, arguments |-> arguments]

list_prompts == <<Prompt("date-summary", <<>>)>>

get_prompt(name) ==
  IF name = "date-summary"
    THEN Return([description |-> "Date Summary",
                 messages |-> <<[role |-> "user",
                                 content |-> TextContent(
                                   <<"Please provide a summary of the current date, time in UTC, and day of the week.">>)]>>])
    ELSE Raise(Error("ValueError", "UnknownPrompt", <<"Unknown prompt: ", name>>))

(***************************************************************************)
(* The requests a client sends.                                            *)
(***************************************************************************)
ToolNames == {list_tools[i].name : i \in 1..Len(list_tools)}

RequestedTools == ToolNames \cup {"not_a_tool", ""}

QueriedCities == {Paris, Vienna, Aydin, SaoPaulo}

Locations ==
  QueriedCities \cup {str_upper(c) : c \in QueriedCities}
                \cup {str_lower(c) : c \in QueriedCities}
                \cup {Nowhere, <<>>}

ArgumentDicts == {NoArguments} \cup {Arguments(l) : l \in Locations}

\* The calls a client makes: every tool without arguments, the tool that
\* takes a location with every dict, and a tool given an argument it ignores.
ToolCalls ==
  {<<name, NoArguments>> : name \in RequestedTools}
    \cup {<<"current_time_location", arguments>> : arguments \in ArgumentDicts}
    \cup {<<"get_day_name", Arguments(Paris)>>}

RequestedPrompts == {"date-summary", "not_a_prompt"}

Request(method, name, arguments) ==
  [method |-> method, name |-> name, arguments |-> arguments]

\* app.run() hands a request to a handler only once main() runs the server.
Serving == pc = "serving"

ListTools ==
  /\ Serving
  /\ request' = Request("tools/list", "", NoArguments)
  /\ response' = Return(list_tools)
  /\ pc' = "replying"
  /\ UNCHANGED <<env, pending, LOCATION_MAP>>

\* A variant of CallTool that enters a location it could not resolve into
\* the table.
CallToolLearning ==
  /\ Serving
  /\ \E call \in ToolCalls, now \in Clock :
       /\ request' = Request("tools/call", call[1], call[2])
       /\ response' = call_tool(call[1], call[2], now)
       /\ LOCATION_MAP' =
            IF call_tool(call[1], call[2], now).error.kind = "LocationNotFound"
              THEN DictSet(LOCATION_MAP, call[2].location, timezone_utc)
              ELSE LOCATION_MAP
  /\ pc' = "replying"
  /\ UNCHANGED <<env, pending>>

CallTool ==
  /\ Serving
  /\ \E call \in ToolCalls, now \in Clock :
       /\ request' = Request("tools/call", call[1], call[2])
       /\ response' = call_tool(call[1], call[2], now)
  /\ pc' = "replying"
  /\ UNCHANGED <<env, pending, LOCATION_MAP>>

ListPrompts ==
  /\ Serving
  /\ request' = Request("prompts/list", "", NoArguments)
  /\ response' = Return(list_prompts)
  /\ pc' = "replying"
  /\ UNCHANGED <<env, pending, LOCATION_MAP>>

GetPrompt ==
  /\ Serving
  /\ \E name \in RequestedPrompts :
       /\ request' = Request("prompts/get", name, NoArguments)
       /\ response' = get_prompt(name)
  /\ pc' = "replying"
  /\ UNCHANGED <<env, pending, LOCATION_MAP>>

\* The response, a result or an error, goes back to the client and the
\* server waits for the next request.
SendResponse ==
  /\ pc = "replying"
  /\ pc' = "serving"
  /\ request' = NoRequest
  /\ response' = NoResponse
  /\ UNCHANGED <<env, pending, LOCATION_MAP>>

Next ==
  \/ DefineLocationMap
  \/ ReadEnvLocations
  \/ ApplyOverrideEntry
  \/ main
  \/ ListTools
  \/ CallTool
  \/ ListPrompts
  \/ GetPrompt
  \/ SendResponse

Spec == Init /\ [][Next]_vars

(***************************************************************************)
(* What the properties below speak of.                                     *)
(***************************************************************************)
\* The server is handling requests.
Started == pc \in {"serving", "replying"}

Keys == {LOCATION_MAP[i].city : i \in 1..Len(LOCATION_MAP)}

\* The entries of DATE_MCP_LOCATIONS, and the pair an entry states.
EnvEntries == IF env = <<>> THEN <<>> ELSE str_split(env, ",")

IsPair(raw) == str_in("=", raw)

EntryName(raw) == str_strip(SubSeq(raw, 1, str_find(raw, "=") - 1))

EntryZone(raw) == str_strip(SubSeq(raw, str_find(raw, "=") + 1, Len(raw)))

\* The places of the entries of DATE_MCP_LOCATIONS that name L.
Naming(L) ==
  {i \in 1..Len(EnvEntries) : IsPair(EnvEntries[i]) /\ EntryName(EnvEntries[i]) = L}

ConfiguredNames ==
  KnownCities \cup {EntryName(EnvEntries[i]) :
                      i \in {j \in 1..Len(EnvEntries) : IsPair(EnvEntries[j])}}

\* The zone configured for L: the last override naming L, else the built-in.
ConfiguredZone(L) ==
  IF Naming(L) # {}
    THEN EntryZone(EnvEntries[CHOOSE i \in Naming(L) : \A j \in Naming(L) : j <= i])
    ELSE DictGet(BuiltinLocations, L)

\* The table with every entry of DATE_MCP_LOCATIONS applied, in order.
RECURSIVE ApplyAll(_, _)
ApplyAll(table, entries) ==
  IF entries = <<>> THEN table
  ELSE ApplyAll(OverrideEntry(table, Head(entries)), Tail(entries))

ExpectedTable == ApplyAll(BuiltinLocations, EnvEntries)

\* sub is a run of consecutive characters of s.
Contains(s, sub) ==
  \E i \in 0..(Len(s) - Len(sub)) : SubSeq(s, i + 1, i + Len(sub)) = sub

\* The request is a call of current_time_location.
LocationCall ==
  request.method = "tools/call" /\ request.name = "current_time_location"

\* The text a successful current_time_location gives for zone tz.
TimeIn(tz) ==
  \E now \in Clock : response = Return(<<TextContent(isoformat(now, utcoffset(tz)))>>)

(***************************************************************************)
(* The properties.                                                         *)
(***************************************************************************)
\* The loop takes the next entry off the environment's list.
TakesEntry == pc = "overrides" /\ pending # <<>> /\ pending' = Tail(pending)

\* C1: an entry "Name=" with nothing after the "=", and an entry with no "="
\* at all, both leave the table as it was: no key is added and no value is
\* replaced.
C1_MalformedEntryLeavesTable ==
  [][(TakesEntry /\ (~IsPair(Head(pending)) \/ EntryZone(Head(pending)) = <<>>))
       => LOCATION_MAP' = LOCATION_MAP]_vars

\* C9: a pair Name=Zone, both sides trimmed, sets the entry whose key is
\* exactly Name to Zone and changes no other entry: a key that is new, also
\* one that differs from an existing key in letter case only, is added at the
\* end, and every entry under another key keeps its place and its zone.
C9_OverrideSetsExactNameOnly ==
  [][(TakesEntry /\ IsPair(Head(pending))) =>
       LET Name == EntryName(Head(pending))
           Zone == EntryZone(Head(pending))
       IN  /\ DictHas(LOCATION_MAP', Name)
           /\ DictGet(LOCATION_MAP', Name) = Zone
           /\ Len(LOCATION_MAP') = Len(LOCATION_MAP) + (IF Name \in Keys THEN 0 ELSE 1)
           /\ \A i \in 1..Len(LOCATION_MAP) :
                /\ LOCATION_MAP'[i].city = LOCATION_MAP[i].city
                /\ LOCATION_MAP[i].city # Name
                     => LOCATION_MAP'[i].tz = LOCATION_MAP[i].tz]_vars

\* C9's case: an override named paris stands beside the built-in Paris,
\* which keeps its zone.
C9_Witness ==
  /\ Started
  /\ DictHas(LOCATION_MAP, Paris) /\ DictHas(LOCATION_MAP, str_lower(Paris))
  /\ DictGet(LOCATION_MAP, Paris) = DictGet(BuiltinLocations, Paris)
  /\ DictGet(LOCATION_MAP, str_lower(Paris)) # DictGet(LOCATION_MAP, Paris)

\* C10: the built-in table and then every override have been applied, each
\* once and in order, before any request is handled: whenever the server
\* serves, or holds a request or a response, the loop over the overrides is
\* over and the table is the built-in table with all of them applied.
C10_StartupBeforeRequests ==
  (Started \/ request # NoRequest \/ response # NoResponse)
    => /\ pending = <<>>
       /\ LOCATION_MAP = ExpectedTable
       /\ \A L \in ConfiguredNames : DictHas(LOCATION_MAP, L)

\* C10's case: a location is asked for after two overrides were applied.
C10_Witness ==
  /\ pc = "replying" /\ LocationCall
  /\ Len(EnvEntries) >= 2
  /\ Len(LOCATION_MAP) = Len(BuiltinLocations) + 2

\* L is the first entry of the table among those equal to L but for case.
FirstOfItsCase(L) ==
  LET lowered == str_lower(L)
      place == CHOOSE j \in 1..Len(LOCATION_MAP) : LOCATION_MAP[j].city = L
  IN  \A i \in 1..(place - 1) : str_lower(LOCATION_MAP[i].city) # lowered

CaseVariants(L) == {str_upper(L), str_lower(L)}

\* C2 as stated: for every name L of the table after startup, the upper-case
\* and the lower-case form of L resolve to what L resolves to, unless the
\* form is itself a key of the table.
C2_CaseVariantsResolveAlike ==
  Serving =>
    \A L \in Keys : \A V \in CaseVariants(L) :
      V \notin Keys => get_timezone_from_location(V) = get_timezone_from_location(L)

\* C2, amended: for every name L of the table after startup that is the
\* first entry among those equal to L but for letter case, a form of L
\* (upper or lower case) that is not itself a key and that lower-cases to
\* what L lower-cases to resolves to what L resolves to.
C2_FirstOfCaseResolvesAlike ==
  Serving =>
    \A L \in Keys : \A V \in CaseVariants(L) :
      (V \notin Keys /\ str_lower(V) = str_lower(L) /\ FirstOfItsCase(L))
        => /\ ~get_timezone_from_location(V).raised
           /\ get_timezone_from_location(V) = get_timezone_from_location(L)

\* C2's case: PARIS is asked for, is no key, and the answer is the time in
\* the zone of Paris, while an entry paris with another zone follows Paris.
C2_Witness ==
  /\ pc = "replying" /\ LocationCall
  /\ request.arguments.location = str_upper(Paris)
  /\ str_upper(Paris) \notin Keys
  /\ str_lower(Paris) \in Keys
  /\ TimeIn(DictGet(LOCATION_MAP, Paris))

\* C3: after startup every key L of the table resolves, and to the zone
\* stored for L, which is the zone of the last override naming L, or the
\* built-in zone when no override names L; the entry under the exact key wins
\* over an entry that matches but for case.  Every built-in and every
\* configured name is a key.
C3_ExactKeyResolvesToConfiguredZone ==
  Serving =>
    /\ Keys = ConfiguredNames
    /\ \A i \in 1..Len(LOCATION_MAP) :
         /\ ~get_timezone_from_location(LOCATION_MAP[i].city).raised
         /\ get_timezone_from_location(LOCATION_MAP[i].city).value = LOCATION_MAP[i].tz
         /\ LOCATION_MAP[i].tz = ConfiguredZone(LOCATION_MAP[i].city)

\* C3's case: Vienna is asked for where the overrides name VIENNA first and
\* Vienna after it, with different zones, and the answer is the time in the
\* zone given for Vienna.
C3_Witness ==
  /\ pc = "replying" /\ LocationCall
  /\ request.arguments.location = Vienna
  /\ \E i, j \in 1..Len(LOCATION_MAP) :
       /\ i < j
       /\ LOCATION_MAP[i].city = str_upper(Vienna)
       /\ LOCATION_MAP[j].city = Vienna
       /\ LOCATION_MAP[i].tz # LOCATION_MAP[j].tz
  /\ TimeIn(EuropeVienna)

\* No entry of the table is location, exactly or but for case.
NoMatch(location) ==
  LET lowered == str_lower(location)
  IN  \A i \in 1..Len(LOCATION_MAP) :
        /\ LOCATION_MAP[i].city # location
        /\ str_lower(LOCATION_MAP[i].city) # lowered

\* The first min(5, size) names of the table, in insertion order.
FirstNames ==
  SubSeq([i \in 1..Len(LOCATION_MAP) |-> LOCATION_MAP[i].city], 1,
         IF Len(LOCATION_MAP) < 5 THEN Len(LOCATION_MAP) ELSE 5)

\* C4: a location that matches no entry, exactly or but for case, does not
\* resolve: the failure is LocationNotFound, its message lists exactly the
\* first min(5, size) names of the table in insertion order, and it holds the
\* location asked for.
C4_UnknownLocationFails ==
  Serving =>
    \A location \in Locations :
      NoMatch(location) =>
        LET r == get_timezone_from_location(location)
        IN  /\ r.raised
            /\ r.error.kind = "LocationNotFound"
            /\ Contains(r.error.message,
                        <<"'. Available locations include: ">>
                          \o str_join(<<",", " ">>, FirstNames)
                          \o <<", and more. To add '">>)
            /\ Contains(r.error.message, <<"Unknown location: '">> \o location)
            /\ Contains(r.error.message, location \o <<"=<IANA_TIMEZONE> For example, to add Vienna: DATE_MCP_LOCATIONS=Vienna=Europe/Vienna For multiple locations: DATE_MCP_LOCATIONS=Vienna=Europe/Vienna,Sydney=Australia/Sydney">>)

\* C4's case: Nowhere is asked for and the call fails with LocationNotFound.
C4_Witness ==
  /\ pc = "replying" /\ LocationCall
  /\ request.arguments.location = Nowhere
  /\ response.kind = "error"
  /\ response.error.kind = "LocationNotFound"
  /\ Contains(response.error.message, Nowhere)

\* C5: current_time_location fails with InvalidArgument when location is
\* missing or empty, whatever the table holds; for every other location the
\* resolver alone decides: a result when the location resolves,
\* LocationNotFound when it does not.
C5_LocationCallOutcome ==
  (pc = "replying" /\ LocationCall) =>
    IF ~request.arguments.present \/ request.arguments.location = <<>>
      THEN response.kind = "error" /\ response.error.kind = "InvalidArgument"
    ELSE IF get_timezone_from_location(request.arguments.location).raised
      THEN response.kind = "error" /\ response.error.kind = "LocationNotFound"
      ELSE response.kind = "result"

\* The six tools, in the order documented.
DocumentedTools ==
  <<"get_day_name", "get_iso_date", "current_time", "current_time_utc",
    "current_time_location", "list_available_locations">>

\* C6: the list of tools is the six documented names in the documented
\* order, on every call, and a call fails with UnknownTool exactly when its
\* name is none of the six; a call of an unknown name is an error, never a
\* result.
C6_ToolsListedAreToolsHandled ==
  /\ request.method = "tools/list" =>
       /\ response.kind = "result"
       /\ Len(response.result) = Len(DocumentedTools)
       /\ \A i \in 1..Len(DocumentedTools) : response.result[i].name = DocumentedTools[i]
  /\ request.method = "tools/call" =>
       /\ response.kind \in {"result", "error"}
       /\ (response.kind = "error" /\ response.error.kind = "UnknownTool")
            <=> (\A i \in 1..Len(DocumentedTools) : request.name # DocumentedTools[i])

\* C6's case: a tool that is not listed is called and the call fails with
\* UnknownTool.
C6_Witness ==
  /\ request.method = "tools/call"
  /\ request.name = "not_a_tool"
  /\ response.kind = "error"
  /\ response.error.kind = "UnknownTool"

\* The request is a call of list_available_locations.
ListLocationsCall ==
  request.method = "tools/call" /\ request.name = "list_available_locations"

\* The lines of the one text block of the response.
Lines == str_split(response.result[1].text, "LF")

\* The names of the table in ascending order: the name in place i has i - 1
\* names below it.
Ascending ==
  [i \in 1..Cardinality(Keys) |->
     CHOOSE k \in Keys : Cardinality({l \in Keys : str_lt(l, k)}) = i - 1]

\* C7 as stated: list_available_locations gives one text block whose lines
\* are exactly the names of the table, strictly ascending, none twice.
C7_LinesAreTheNames ==
  (pc = "replying" /\ ListLocationsCall) =>
    /\ response.kind = "result"
    /\ Len(response.result) = 1
    /\ {Lines[i] : i \in 1..Len(Lines)} = Keys
    /\ \A i \in 1..(Len(Lines) - 1) : str_lt(Lines[i], Lines[i + 1])

\* C7, amended: list_available_locations gives one text block, the names of
\* the table, each once and strictly ascending by code point, joined by
\* newlines; when no name holds a newline the lines of the block are exactly
\* those names.
C7_TextIsNamesAscendingJoined ==
  (pc = "replying" /\ ListLocationsCall) =>
    /\ response.kind = "result"
    /\ Len(response.result) = 1
    /\ response.result[1].type = "text"
    /\ \A i \in 1..(Cardinality(Keys) - 1) : str_lt(Ascending[i], Ascending[i + 1])
    /\ response.result[1].text = str_join(<<"LF">>, Ascending)
    /\ (\A k \in Keys : ~str_in("LF", k)) =>
         /\ Len(Lines) = Cardinality(Keys)
         /\ \A i \in 1..Len(Lines) : Lines[i] = Ascending[i]

\* C7's case: the locations are listed from a table that holds an override
\* besides the built-in names, and the override's name is a line of the text.
C7_Witness ==
  /\ pc = "replying" /\ ListLocationsCall
  /\ Vienna \in Keys
  /\ \A k \in Keys : ~str_in("LF", k)
  /\ \E i \in 1..Len(Lines) : Lines[i] = Vienna

\* C8: once the server serves, no request changes the table (keys, zones and
\* order), whether it succeeds or fails, and after every response, a failure
\* too, the server waits for the next request.
C8_TableReadOnlyAfterStartup ==
  [][Started =>
       /\ LOCATION_MAP' = LOCATION_MAP
       /\ pc' \in {"serving", "replying"}
       /\ pc = "replying" => pc' = "serving"]_vars

\* C8's case: a call has failed with LocationNotFound and the table is the
\* one startup built.
C8_Witness ==
  /\ pc = "replying"
  /\ response.kind = "error"
  /\ response.error.kind = "LocationNotFound"
  /\ LOCATION_MAP = ExpectedTable

====
